---------------------------- MODULE Spec2Model ----------------------------
(***************************************************************************)
(* Model of bdat-toolset's conversion engine:                              *)
(*   - the JSON converter (toolset/src/convert/json.rs): write_table and   *)
(*     read_table as operators over tables and documents;                  *)
(*   - the batch orchestrator (toolset/src/convert/mod.rs):                *)
(*     run_serialization and run_deserialization as state machines over   *)
(*     units of work running on a bounded worker pool.                     *)
(***************************************************************************)
EXTENDS Integers, Sequences, FiniteSets, TLC

VARIABLES
    \* ---- converter (json.rs) ----
    phase,      \* "idle" | "start" | "written" | "read"
    table,      \* the RawTable handed to write_table (NoneV when reading a foreign document)
    untyped,    \* JsonConverter.untyped
    sidecar,    \* the FileSchema handed to read_table
    doc,        \* the JSON document between write_table and read_table
    result,     \* what read_table did: ok(table) | err | panic
    \* ---- batch orchestrator (mod.rs) ----
    args,       \* ConvertArgs
    runPc,      \* "idle" | "init" | "running" | "returned"
    runResult,  \* what the run returned: ok | err | panic
    filters,    \* table_filter and column_filter
    found,      \* find_any's flag: a failing unit has been observed
    unit,       \* per unit of work: its position, cursor and error
    schemaAcc,  \* per unit: the FileSchema being accumulated (export)
    dirs,       \* directories created
    files,      \* files created, with their content
    fileBar,    \* file_bar's position
    tableBar    \* per unit: table_bar's position

convVars == <<phase, table, untyped, sidecar, doc, result>>

orchVars == <<args, runPc, runResult, filters, found, unit, schemaAcc, dirs, files,
              fileBar, tableBar>>

vars == <<phase, table, untyped, sidecar, doc, result,
          args, runPc, runResult, filters, found, unit, schemaAcc, dirs, files,
          fileBar, tableBar>>

-----------------------------------------------------------------------------
(* Bounds of the model. *)

MaxCols == 2
MaxRows == 2
MaxId == 2
NumFiles == 3
Workers == 2

-----------------------------------------------------------------------------
(* Option<T> *)

NoneV == [some |-> FALSE]

Some(x) == [some |-> TRUE, val |-> x]

(* Result of a call: Ok(value), Err(error) or a panic (process abort). *)
Ok(x) == [kind |-> "ok", val |-> x]

Err(e) == [kind |-> "err", error |-> e]

Panic == [kind |-> "panic"]

-----------------------------------------------------------------------------
(* Label / ValueType / Cell model (bdat::types).                           *)

Hashed(h) == [variant |-> "Hashed", hash |-> h]

Unhashed(s) == [variant |-> "Unhashed", name |-> s]

ColumnNames == {"id", "hp"}

ColumnHashes == {1, 2}

ColumnLabels == {Unhashed(s) : s \in ColumnNames} \cup {Hashed(h) : h \in ColumnHashes}

TableLabels == {Unhashed("Enemy"), Hashed(2)}

ValueTypes == {"UnsignedInt", "String"}

(* Textual form of a 32-bit hash. *)
HexText(h) ==
    CASE h = 1 -> "<00000001>"
      [] h = 2 -> "<00000002>"
      [] h = 3 -> "<00000003>"
      [] OTHER -> "<00000004>"

IsHexText(s) == s \in {HexText(h) : h \in 1..4}

HexValue(s) == CHOOSE h \in 1..4 : HexText(h) = s

(* The name hash of a plain string. *)
Murmur3(s) ==
    CASE s = "id" -> 3
      [] s = "hp" -> 2
      [] OTHER -> 4

(* Label::to_string: a plain name as is, a hash in its textual form. *)
LabelToString(l) ==
    IF l.variant = "Hashed" THEN HexText(l.hash) ELSE l.name

(* Label::parse(text, force_hash): a text in the textual form of a hash is *)
(* that hash; any other text is a plain name, hashed when the label is     *)
(* recorded as hashed.                                                     *)
LabelParse(text, hashed) ==
    IF IsHexText(text) THEN Hashed(HexValue(text))
    ELSE IF hashed THEN Hashed(Murmur3(text))
    ELSE Unhashed(text)

(* A cell of each type; a JSON value is a number or a string and carries   *)
(* no type tag.                                                            *)
CellsOf(ty) ==
    IF ty = "UnsignedInt"
    THEN {[ty |-> "UnsignedInt", n |-> 7]}
    ELSE {[ty |-> "String", s |-> "Slime"]}

JsonValues == {[j |-> "number", n |-> 7], [j |-> "string", s |-> "Slime"]}

(* serde_json::to_value(cell) *)
CellToJson(cell) ==
    IF cell.ty = "UnsignedInt"
    THEN [j |-> "number", n |-> cell.n]
    ELSE [j |-> "string", s |-> cell.s]

(* ty.as_cell_seed().deserialize(v): decodes by the declared type. *)
DecodeCell(ty, v) ==
    IF ty = "UnsignedInt" /\ v.j = "number" THEN Ok([ty |-> "UnsignedInt", n |-> v.n])
    ELSE IF ty = "String" /\ v.j = "string" THEN Ok([ty |-> "String", s |-> v.s])
    ELSE Err("invalid type")


-----------------------------------------------------------------------------
(* File Schema sidecar (convert/schema.rs): per table, its column layout.  *)

EmptySidecar == [file_name |-> "btl", version |-> "Modern", tables |-> <<>>]

SidecarColumn(c) ==
    [name |-> LabelToString(c.label), ty |-> c.ty, hashed |-> c.label.variant = "Hashed"]

(* FileSchema::feed_table *)
FeedTable(schema, t) ==
    [schema EXCEPT !.tables =
        Append(@, [name |-> t.name,
                   columns |-> [i \in 1..Len(t.columns) |-> SidecarColumn(t.columns[i])]])]

SidecarHasTable(schema, name) ==
    \E i \in 1..Len(schema.tables) : schema.tables[i].name = name

-----------------------------------------------------------------------------
(* JsonConverter (convert/json.rs)                                         *)

(* HashMap::insert: a later insert of the same key replaces the earlier.   *)
MapInsert(m, k, v) == [x \in (DOMAIN m) \cup {k} |-> IF x = k THEN v ELSE m[x]]

EmptyMap == [x \in {} |-> NoneV]

(* write_table, lines 64-74: the inline schema of a typed document. *)
ColumnSchemaOf(c) ==
    [name |-> LabelToString(c.label),
     ty |-> c.ty,
     hashed |-> c.label.variant = "Unhashed"]

WriteSchema(t, isUntyped) ==
    IF ~isUntyped
    THEN Some([i \in 1..Len(t.columns) |-> ColumnSchemaOf(t.columns[i])])
    ELSE NoneV

(* write_table, lines 80-89: the fields of one row, collected into a map;  *)
(* column i takes the i-th cell (row.cells.remove(0)).                     *)
RECURSIVE WriteCells(_, _, _)
WriteCells(columns, cells, acc) ==
    IF Len(columns) = 0 THEN acc
    ELSE WriteCells(Tail(columns), Tail(cells),
                    MapInsert(acc, LabelToString(Head(columns).label),
                              CellToJson(Head(cells))))

(* A write_table that numbers the rows by position instead of keeping     *)
(* their ids.                                                              *)
WriteTableByPosition(t, isUntyped) ==
    IF \E i \in 1..Len(t.rows) : Len(t.rows[i].cells) < Len(t.columns)
    THEN Panic
    ELSE Ok([valid |-> TRUE,
             schema |-> WriteSchema(t, isUntyped),
             rows |-> [i \in 1..Len(t.rows) |->
                          [id |-> i - 1,
                           cells |-> WriteCells(t.columns, t.rows[i].cells, EmptyMap)]]])

(* write_table, lines 63-104. remove(0) on an empty vector panics. *)
WriteTable(t, isUntyped) ==
    IF \E i \in 1..Len(t.rows) : Len(t.rows[i].cells) < Len(t.columns)
    THEN Panic
    ELSE Ok([valid |-> TRUE,
             schema |-> WriteSchema(t, isUntyped),
             rows |-> [i \in 1..Len(t.rows) |->
                          [id |-> t.rows[i].id,
                           cells |-> WriteCells(t.columns, t.rows[i].cells, EmptyMap)]]])

(* read_table, lines 121-137: the fold over the inline schema. *)
RECURSIVE FoldSchema(_, _)
FoldSchema(schemaSeq, acc) ==
    IF Len(schemaSeq) = 0 THEN acc
    ELSE LET col == Head(schemaSeq)
         IN  FoldSchema(Tail(schemaSeq),
                 [cols |-> Append(acc.cols,
                              [ty |-> col.ty,
                               label |-> LabelParse(col.name, col.hashed),
                               offset |-> 0]),
                  map |-> MapInsert(acc.map, col.name, [index |-> acc.idx, ty |-> col.ty]),
                  idx |-> acc.idx + 1])

(* Iterator::flatten over a vector of options. *)
RECURSIVE Flatten(_)
Flatten(slots) ==
    IF Len(slots) = 0 THEN <<>>
    ELSE IF Head(slots).some THEN <<Head(slots).val>> \o Flatten(Tail(slots))
    ELSE Flatten(Tail(slots))

(* read_table, lines 142-155: one row. The vector has one slot per field   *)
(* of the row (r.cells.len()); a field that is no column (column_map[&k]), *)
(* an index past the vector, or a value that does not decode (unwrap)      *)
(* panics, whatever the order the map yields the fields in.                *)
ReadRow(columnMap, r) ==
    LET fields == DOMAIN r.cells
        n == Cardinality(fields)
        Bad(k) == \/ k \notin DOMAIN columnMap
                  \/ columnMap[k].index >= n
                  \/ DecodeCell(columnMap[k].ty, r.cells[k]).kind # "ok"
        slots == [i \in 1..n |->
                    IF \E k \in fields : columnMap[k].index = i - 1
                    THEN LET k == CHOOSE f \in fields : columnMap[f].index = i - 1
                         IN  Some(DecodeCell(columnMap[k].ty, r.cells[k]).val)
                    ELSE NoneV]
    IN  IF \E k \in fields : Bad(k) THEN Panic
        ELSE IF Len(Flatten(slots)) # n THEN Panic
        ELSE Ok([id |-> r.id, cells |-> Flatten(slots)])

(* read_table, lines 112-163. The schema parameter is not consulted. *)
ReadTable(name, schema, d) ==
    IF ~d.valid THEN Err("failed to read JSON table")
    ELSE IF ~d.schema.some THEN Panic
    ELSE LET folded == FoldSchema(d.schema.val, [cols |-> <<>>, map |-> EmptyMap, idx |-> 0])
             rows == [i \in 1..Len(d.rows) |-> ReadRow(folded.map, d.rows[i])]
         IN  IF \E i \in 1..Len(d.rows) : rows[i].kind = "panic" THEN Panic
             ELSE Ok([name |-> name,
                      rows |-> [i \in 1..Len(d.rows) |-> rows[i].val],
                      columns |-> folded.cols])

-----------------------------------------------------------------------------
(* Inputs of the converter: well-formed tables (every row has one cell per *)
(* column, of the column's type; column labels are distinct), as the       *)
(* binary codec yields them.                                               *)

SeqsUpTo(S, n) == UNION {[1..k -> S] : k \in 0..n}

IsInjective(f) == \A i, j \in DOMAIN f : f[i] = f[j] => i = j

ColumnSeqs ==
    {[i \in 1..Len(ls) |-> [label |-> ls[i], ty |-> ts[i], offset |-> 4 * (i - 1)]] :
        <<ls, ts>> \in {<<l, t>> \in SeqsUpTo(ColumnLabels, MaxCols) \X SeqsUpTo(ValueTypes, MaxCols) :
                            Len(l) = Len(t) /\ IsInjective(l)}}

CellSeqs(columns) ==
    {cs \in [1..Len(columns) -> UNION {CellsOf(ty) : ty \in ValueTypes}] :
        \A k \in 1..Len(columns) : cs[k] \in CellsOf(columns[k].ty)}

RowSeqs(columns) ==
    SeqsUpTo({[id |-> i, cells |-> cs] : i \in 0..MaxId, cs \in CellSeqs(columns)}, MaxRows)

IsTable(t) ==
    \E cols \in ColumnSeqs :
        \E n \in TableLabels, rs \in RowSeqs(cols) :
            t = [name |-> Some(n), columns |-> cols, rows |-> rs]

(* Inputs of read_table alone: documents as a user may hand them in. *)
MaxDocRows == 1

FieldNames == ColumnNames \cup {"zz"}

DocSchemas ==
    {NoneV} \cup
    {Some(cs) : cs \in SeqsUpTo([name : ColumnNames, ty : ValueTypes, hashed : BOOLEAN], MaxCols)}

DocRows ==
    UNION {{[id |-> i, cells |-> c] : i \in {1}, c \in [fs -> JsonValues]} : fs \in SUBSET FieldNames}

InvalidDocument == [valid |-> FALSE, schema |-> NoneV, rows |-> <<>>]

DocTableName == Some(Unhashed("Enemy"))

DocSidecar ==
    FeedTable(EmptySidecar,
              [name |-> DocTableName,
               columns |-> <<[label |-> Unhashed("id"), ty |-> "UnsignedInt", offset |-> 0]>>,
               rows |-> <<>>])

-----------------------------------------------------------------------------
(* Export of one table followed by its import (write_table, read_table).   *)

(* The orchestrator is not running while a converter is exercised alone. *)
OrchIdle ==
    /\ args = NoneV
    /\ runPc = "idle"
    /\ runResult = NoneV
    /\ filters = NoneV
    /\ found = FALSE
    /\ unit = <<>>
    /\ schemaAcc = <<>>
    /\ dirs = {}
    /\ files = <<>>
    /\ fileBar = 0
    /\ tableBar = <<>>

InitConv ==
    /\ OrchIdle
    /\ phase = "start"
    /\ IsTable(table)
    /\ untyped \in BOOLEAN
    /\ sidecar \in {EmptySidecar, FeedTable(EmptySidecar, table)}
    /\ doc = NoneV
    /\ result = NoneV

WriteTableStep ==
    /\ phase = "start"
    /\ table # NoneV
    /\ LET w == WriteTable(table, untyped)
       IN  /\ w.kind = "ok"
           /\ doc' = Some(w.val)
    /\ phase' = "written"
    /\ UNCHANGED <<table, untyped, sidecar, result>>
    /\ UNCHANGED orchVars

ReadTableStep ==
    /\ phase = "written"
    /\ result' = ReadTable(table.name, sidecar, doc.val)
    /\ phase' = "read"
    /\ UNCHANGED <<table, untyped, sidecar, doc>>
    /\ UNCHANGED orchVars

NextConv == WriteTableStep \/ ReadTableStep

SpecConv == InitConv /\ [][NextConv]_vars

(* Import of a document that did not come from write_table. *)
InitRead ==
    /\ OrchIdle
    /\ phase = "loaded"
    /\ table = NoneV
    /\ untyped = FALSE
    /\ sidecar \in {EmptySidecar, DocSidecar}
    /\ \/ doc = Some(InvalidDocument)
       \/ \E sc \in DocSchemas, rs \in SeqsUpTo(DocRows, MaxDocRows) :
             doc = Some([valid |-> TRUE, schema |-> sc, rows |-> rs])
    /\ result = NoneV

ReadDocumentStep ==
    /\ phase = "loaded"
    /\ result' = ReadTable(DocTableName, sidecar, doc.val)
    /\ phase' = "read"
    /\ UNCHANGED <<table, untyped, sidecar, doc>>
    /\ UNCHANGED orchVars

NextRead == ReadDocumentStep

SpecRead == InitRead /\ [][NextRead]_vars

-----------------------------------------------------------------------------
(* Properties of the converter.                                            *)

RowIds(t) == [i \in 1..Len(t.rows) |-> t.rows[i].id]

(* Equality of two tables but for the offset of each ColumnDef. *)
SameModuloOffset(a, b) ==
    /\ a.name = b.name
    /\ Len(a.columns) = Len(b.columns)
    /\ \A i \in 1..Len(a.columns) :
          /\ a.columns[i].label = b.columns[i].label
          /\ a.columns[i].ty = b.columns[i].ty
    /\ Len(a.rows) = Len(b.rows)
    /\ \A i \in 1..Len(a.rows) :
          /\ a.rows[i].id = b.rows[i].id
          /\ a.rows[i].cells = b.rows[i].cells

(* C3: in typed mode write_table emits one schema entry per column, in     *)
(* column order, with the column's type, and hashed is true exactly for a  *)
(* Hashed label.                                                           *)
C3_HashedFlagIsLabelVariant ==
    (phase \in {"written", "read"} /\ ~untyped) =>
        /\ doc.val.schema.some
        /\ Len(doc.val.schema.val) = Len(table.columns)
        /\ \A i \in 1..Len(table.columns) :
              /\ doc.val.schema.val[i].ty = table.columns[i].ty
              /\ doc.val.schema.val[i].hashed = (table.columns[i].label.variant = "Hashed")

(* C4: a table with at least one row, exported in typed mode and imported, *)
(* comes back equal but for the column offsets.                            *)
C4_RoundTrip ==
    (phase = "read" /\ ~untyped /\ Len(table.rows) >= 1) =>
        /\ result.kind = "ok"
        /\ SameModuloOffset(result.val, table)

(* C5: the row ids read_table returns after write_table are the original   *)
(* ids, in the original order; a typed document is always read back.       *)
C5_RowIdsPreserved ==
    phase = "read" =>
        /\ ~untyped => result.kind = "ok"
        /\ result.kind = "ok" => RowIds(result.val) = RowIds(table)

C5_Witness ==
    /\ phase = "read"
    /\ result.kind = "ok"
    /\ RowIds(table) = <<2, 0>>
    /\ RowIds(result.val) = <<2, 0>>

(* C6: with no inline schema and no sidecar entry for the table,           *)
(* read_table returns an error value; it does not panic.                   *)
C6_SchemaMissingIsAnError ==
    (/\ phase = "read"
     /\ doc.val.valid
     /\ ~doc.val.schema.some
     /\ ~SidecarHasTable(sidecar, DocTableName)) => result.kind = "err"

(* C7: an untyped document whose table the sidecar records is read back    *)
(* with the columns of the sidecar, giving the original table.             *)
C7_UntypedReadsFromSidecar ==
    (phase = "read" /\ untyped /\ SidecarHasTable(sidecar, table.name)) =>
        /\ result.kind = "ok"
        /\ SameModuloOffset(result.val, table)

(* A row that does not match the declared columns: a column without a      *)
(* field, a field that is no column, or a value not of the column's type.  *)
DeclaredNames(d) == {d.schema.val[i].name : i \in 1..Len(d.schema.val)}

DeclaredType(d, k) ==
    d.schema.val[CHOOSE i \in 1..Len(d.schema.val) :
                    /\ d.schema.val[i].name = k
                    /\ \A j \in (i + 1)..Len(d.schema.val) : d.schema.val[j].name # k].ty

RowIsMalformed(d, r) ==
    \/ \E k \in DeclaredNames(d) : k \notin DOMAIN r.cells
    \/ \E k \in DOMAIN r.cells : k \notin DeclaredNames(d)
    \/ \E k \in DOMAIN r.cells \cap DeclaredNames(d) :
          DecodeCell(DeclaredType(d, k), r.cells[k]).kind # "ok"

(* C8: a document with a malformed row makes read_table return an error    *)
(* value, not abort.                                                       *)
C8_MalformedRowIsAnError ==
    (/\ phase = "read"
     /\ doc.val.valid
     /\ doc.val.schema.some
     /\ \E i \in 1..Len(doc.val.rows) : RowIsMalformed(doc.val, doc.val.rows[i]))
    => result.kind = "err"

(* C9: every row of a table read_table returns has one cell per column,    *)
(* the cell at position i decoded from the field named by column i with    *)
(* column i's type.                                                        *)
C9_RowsHaveAllCells ==
    (phase = "read" /\ table = NoneV /\ result.kind = "ok") =>
        \A r \in 1..Len(result.val.rows) :
            /\ Len(result.val.rows[r].cells) = Len(result.val.columns)
            /\ \A i \in 1..Len(result.val.columns) :
                  LET k == doc.val.schema.val[i].name
                  IN  /\ k \in DOMAIN doc.val.rows[r].cells
                      /\ result.val.rows[r].cells[i] =
                            DecodeCell(doc.val.schema.val[i].ty, doc.val.rows[r].cells[k]).val

-----------------------------------------------------------------------------
(* Batch orchestrator (convert/mod.rs): shared parts.                      *)

Units == 1..NumFiles

(* Filter (filter.rs): the empty filter selects every name. *)
FilterOf(names) == names

FilterContains(f, label) == f = {} \/ LabelToString(label) \in f

(* HashNameTable::convert_all (hash.rs): a hashed label whose name is      *)
(* known becomes that name; the others are left as they are.               *)
KnownHashes == {Murmur3("hp")}

ConvertLabel(l) ==
    IF l.variant = "Hashed" /\ l.hash \in KnownHashes
    THEN Unhashed(CHOOSE n \in ColumnNames : Murmur3(n) = l.hash)
    ELSE l

ConvertAll(t) ==
    [t EXCEPT !.name = IF @.some THEN Some(ConvertLabel(@.val)) ELSE @,
              !.columns = [i \in 1..Len(@) |-> [@[i] EXCEPT !.label = ConvertLabel(@)]]]

(* The units in flight on the worker pool. *)
InFlight == {p \in Units : unit[p].pc \notin {"queued", "done", "failed", "panicked"}}

Failed == {p \in Units : unit[p].pc = "failed"}

UnitErr(p, cause) == [unit |-> p, cause |-> cause]

SetUnit(p, pc) == unit' = [unit EXCEPT ![p].pc = pc]

FailUnit(p, cause) ==
    unit' = [unit EXCEPT ![p].pc = "erred", ![p].err = Some(UnitErr(p, cause))]

FilePut(f, path, content) ==
    [x \in (DOMAIN f) \cup {path} |-> IF x = path THEN content ELSE f[x]]

(* A start that does not look at find_any's flag. *)
CanStartIgnoringFlag(p) ==
    /\ runPc = "running"
    /\ unit[p].pc = "queued"
    /\ Cardinality(InFlight) < Workers

(* rayon's par_iter: a queued unit starts when a worker is free, and       *)
(* find_any takes no new item once its flag is set.                        *)
CanStart(p) ==
    /\ runPc = "running"
    /\ unit[p].pc = "queued"
    /\ ~found
    /\ Cardinality(InFlight) < Workers

(* find_any's consumer: the closure returned an Err, the flag is set. *)
Observe(p) ==
    /\ runPc = "running"
    /\ unit[p].pc = "erred"
    /\ SetUnit(p, "failed")
    /\ found' = TRUE
    /\ UNCHANGED <<args, runPc, runResult, filters, schemaAcc, dirs, files, fileBar, tableBar>>
    /\ UNCHANGED convVars

(* The parallel iterator has ended: nothing is in flight, and every unit   *)
(* ran or the flag stopped the rest.                                       *)
BatchEnded ==
    /\ runPc = "running"
    /\ InFlight = {}
    /\ found \/ \A p \in Units : unit[p].pc \in {"done", "panicked"}

-----------------------------------------------------------------------------
(* Export: run_serialization.                                              *)

EnemyTable ==
    [name |-> Some(Unhashed("Enemy")),
     columns |-> <<[label |-> Unhashed("id"), ty |-> "UnsignedInt", offset |-> 0],
                   [label |-> Hashed(1), ty |-> "String", offset |-> 4]>>,
     rows |-> <<[id |-> 1, cells |-> <<[ty |-> "UnsignedInt", n |-> 7],
                                       [ty |-> "String", s |-> "Slime"]>>]>>]

UnnamedTable ==
    [name |-> NoneV,
     columns |-> <<[label |-> Unhashed("id"), ty |-> "UnsignedInt", offset |-> 0]>>,
     rows |-> <<>>]

ItemTable ==
    [name |-> Some(Unhashed("Item")),
     columns |-> <<[label |-> Hashed(Murmur3("hp")), ty |-> "UnsignedInt", offset |-> 0],
                   [label |-> Unhashed("id"), ty |-> "UnsignedInt", offset |-> 4]>>,
     rows |-> <<[id |-> 5, cells |-> <<[ty |-> "UnsignedInt", n |-> 7],
                                       [ty |-> "UnsignedInt", n |-> 7]>>]>>]

Catalogue == <<EnemyTable, UnnamedTable, ItemTable>>

(* The tables of source file p, as the codec decodes them: two tables of   *)
(* the catalogue, a different pair from one file to the next.              *)
SourceTables(p) ==
    <<Catalogue[((p - 1) % Len(Catalogue)) + 1], Catalogue[(p % Len(Catalogue)) + 1]>>

(* Where source file p lies under the common root of the input, and its    *)
(* file stem; file and directory names are numbered. Files 1 and 2 share   *)
(* a stem, file 2 lying in a directory that is named like file 1's stem.   *)
SourceStem(p) == (p + 1) \div 2

SourceDir(p) == IF p % 2 = 0 THEN <<[dir |-> SourceStem(p)]>> ELSE <<>>

(* FileSchema::new(file_name, BdatVersion::Modern), line 182. *)
NewSchema(p) == [EmptySidecar EXCEPT !.file_name = SourceStem(p)]

(* The runs explored: every combination of the two filters and of schema   *)
(* emission in typed mode, and untyped mode with the other options at      *)
(* their defaults.                                                         *)
ExportArgs ==
    {a \in [out_file : {NoneV, Some("out")},
            file_type : {NoneV, Some("json"), Some("xml")},
            untyped : BOOLEAN,
            no_schema : BOOLEAN,
            tables : {{}, {"Enemy"}},
            columns : {{}, {"id"}}] :
        a.untyped => (a.tables = {} /\ a.columns = {} /\ ~a.no_schema)}

NewUnits == [p \in Units |-> [pc |-> "queued", cursor |-> 0, err |-> NoneV, tables |-> <<>>]]

ConvIdle ==
    /\ phase = "idle"
    /\ table = NoneV
    /\ untyped = FALSE
    /\ sidecar = NoneV
    /\ doc = NoneV
    /\ result = NoneV

InitExport ==
    /\ ConvIdle
    /\ args \in ExportArgs
    /\ runPc = "init"
    /\ runResult = NoneV
    /\ filters = NoneV
    /\ found = FALSE
    /\ unit = NewUnits
    /\ schemaAcc = [p \in Units |-> NoneV]
    /\ dirs = {}
    /\ files = <<>>
    /\ fileBar = 0
    /\ tableBar = [p \in Units |-> 0]

(* run_serialization, lines 107-153: the output directory is created once  *)
(* out_file is known and before file_type is looked at.                    *)
ExportConfigure ==
    /\ runPc = "init"
    /\ IF ~args.out_file.some
       THEN /\ runResult' = Err([unit |-> 0, cause |-> "out dir is required"])
            /\ runPc' = "returned"
            /\ UNCHANGED <<dirs, filters>>
       ELSE \/ /\ runResult' = Err([unit |-> 0, cause |-> "Could not create output directory"])
               /\ runPc' = "returned"
               /\ UNCHANGED <<dirs, filters>>
            \/ /\ dirs' = dirs \cup {<<"out">>}
               /\ IF ~args.file_type.some
                  THEN /\ runResult' = Err([unit |-> 0, cause |-> "file type is required"])
                       /\ runPc' = "returned"
                       /\ UNCHANGED filters
                  ELSE IF args.file_type.val \notin {"csv", "json"}
                  THEN /\ runResult' = Err([unit |-> 0, cause |-> "unknown file type"])
                       /\ runPc' = "returned"
                       /\ UNCHANGED filters
                  ELSE /\ filters' = [table_filter |-> FilterOf(args.tables),
                                      column_filter |-> FilterOf(args.columns)]
                       /\ runPc' = "running"
                       /\ UNCHANGED runResult
    /\ UNCHANGED <<args, found, unit, schemaAcc, files, fileBar, tableBar>>
    /\ UNCHANGED convVars

ExportStart(p) ==
    /\ CanStart(p)
    /\ SetUnit(p, "open")
    /\ UNCHANGED <<args, runPc, runResult, filters, found, schemaAcc, dirs, files, fileBar, tableBar>>
    /\ UNCHANGED convVars

(* lines 158-170: File::open, BdatFile::read. *)
ExportOpen(p) ==
    /\ runPc = "running"
    /\ unit[p].pc = "open"
    /\ \/ SetUnit(p, "mkdir")
       \/ FailUnit(p, "open")
       \/ FailUnit(p, "Failed to read BDAT file")
    /\ UNCHANGED <<args, runPc, runResult, filters, found, schemaAcc, dirs, files, fileBar, tableBar>>
    /\ UNCHANGED convVars

(* A unit that sets up a FileSchema whatever no_schema says. *)
ExportMkdirAlwaysSchema(p) ==
    /\ runPc = "running"
    /\ unit[p].pc = "mkdir"
    /\ \/ /\ FailUnit(p, "create_dir_all")
          /\ UNCHANGED <<dirs, schemaAcc>>
       \/ /\ dirs' = dirs \cup {<<"out", p>>}
          /\ schemaAcc' = [schemaAcc EXCEPT ![p] = Some(NewSchema(p))]
          /\ \/ FailUnit(p, "Could not parse BDAT tables")
             \/ unit' = [unit EXCEPT ![p].pc = IF Len(SourceTables(p)) = 0 THEN "schema" ELSE "loop",
                                     ![p].cursor = 1]
    /\ UNCHANGED <<args, runPc, runResult, filters, found, files, fileBar, tableBar>>
    /\ UNCHANGED convVars

(* lines 172-186: create_dir_all(tables_dir), FileSchema::new, get_tables. *)
ExportMkdir(p) ==
    /\ runPc = "running"
    /\ unit[p].pc = "mkdir"
    /\ \/ /\ FailUnit(p, "create_dir_all")
          /\ UNCHANGED <<dirs, schemaAcc>>
       \/ /\ dirs' = dirs \cup {<<"out", p>>}
          /\ schemaAcc' = [schemaAcc EXCEPT ![p] =
                              IF ~args.no_schema THEN Some(NewSchema(p)) ELSE NoneV]
          /\ \/ FailUnit(p, "Could not parse BDAT tables")
             \/ unit' = [unit EXCEPT ![p].pc = IF Len(SourceTables(p)) = 0 THEN "schema" ELSE "loop",
                                     ![p].cursor = 1]
    /\ UNCHANGED <<args, runPc, runResult, filters, found, files, fileBar, tableBar>>
    /\ UNCHANGED convVars

(* file.table_count(), the length given to the unit's table bar. *)
TableCount(p) == Len(SourceTables(p))

(* The table the unit's cursor is at, after convert_all (line 187). *)
CurrentTable(p) == ConvertAll(SourceTables(p)[unit[p].cursor])

AfterTable(p) ==
    [unit EXCEPT ![p].pc = IF unit[p].cursor + 1 > Len(SourceTables(p)) THEN "schema" ELSE "loop",
                 ![p].cursor = @ + 1]

TablePath(p, t) == <<"out", p, LabelToString(t.name.val)>>

(* A loop body that writes every named table, selected or not. *)
ExportTableIgnoresFilter(p) ==
    /\ runPc = "running"
    /\ unit[p].pc = "loop"
    /\ LET t == CurrentTable(p)
       IN  /\ schemaAcc' = [schemaAcc EXCEPT ![p] =
                               IF @.some THEN Some(FeedTable(@.val, t)) ELSE @]
           /\ IF t.name.some
              THEN SetUnit(p, "create")
              ELSE unit' = AfterTable(p)
    /\ UNCHANGED <<args, runPc, runResult, filters, found, dirs, files, fileBar, tableBar>>
    /\ UNCHANGED convVars

(* A loop body that consults the filter first and feeds what it selects. *)
ExportTableFeedsSelected(p) ==
    /\ runPc = "running"
    /\ unit[p].pc = "loop"
    /\ LET t == CurrentTable(p)
       IN  IF t.name.some /\ FilterContains(filters.table_filter, t.name.val)
           THEN /\ schemaAcc' = [schemaAcc EXCEPT ![p] =
                                    IF @.some THEN Some(FeedTable(@.val, t)) ELSE @]
                /\ SetUnit(p, "create")
           ELSE /\ unit' = AfterTable(p)
                /\ UNCHANGED schemaAcc
    /\ UNCHANGED <<args, runPc, runResult, filters, found, dirs, files, fileBar, tableBar>>
    /\ UNCHANGED convVars

(* lines 187-207: rewrite, feed, then the name and the table filter. *)
ExportTable(p) ==
    /\ runPc = "running"
    /\ unit[p].pc = "loop"
    /\ LET t == CurrentTable(p)
       IN  /\ schemaAcc' = [schemaAcc EXCEPT ![p] =
                               IF @.some THEN Some(FeedTable(@.val, t)) ELSE @]
           /\ IF t.name.some /\ FilterContains(filters.table_filter, t.name.val)
              THEN SetUnit(p, "create")
              ELSE unit' = AfterTable(p)
    /\ UNCHANGED <<args, runPc, runResult, filters, found, dirs, files, fileBar, tableBar>>
    /\ UNCHANGED convVars

(* lines 210-213: File::create. *)
ExportCreate(p) ==
    /\ runPc = "running"
    /\ unit[p].pc = "create"
    /\ \/ /\ FailUnit(p, "Could not create output file")
          /\ UNCHANGED files
       \/ /\ files' = FilePut(files, TablePath(p, CurrentTable(p)), [state |-> "empty"])
          /\ SetUnit(p, "write")
    /\ UNCHANGED <<args, runPc, runResult, filters, found, schemaAcc, dirs, fileBar, tableBar>>
    /\ UNCHANGED convVars

(* The document write_table produces for the table under the cursor. *)
ExportedDocument(t, a, f) == WriteTable(t, a.untyped).val

(* lines 214-216: write_table into the BufWriter. *)
ExportWrite(p) ==
    /\ runPc = "running"
    /\ unit[p].pc = "write"
    /\ files' = FilePut(files, TablePath(p, CurrentTable(p)), [state |-> "partial"])
    /\ \/ FailUnit(p, "Could not write table")
       \/ SetUnit(p, "flush")
    /\ UNCHANGED <<args, runPc, runResult, filters, found, schemaAcc, dirs, fileBar, tableBar>>
    /\ UNCHANGED convVars

(* A loop body that goes on to the next table with the writer unflushed. *)
ExportFlushSkipped(p) ==
    /\ runPc = "running"
    /\ unit[p].pc = "flush"
    /\ tableBar' = [tableBar EXCEPT ![p] = @ + 1]
    /\ unit' = AfterTable(p)
    /\ UNCHANGED <<args, runPc, runResult, filters, found, schemaAcc, dirs, files, fileBar>>
    /\ UNCHANGED convVars

(* lines 217-219: flush, table_bar.inc(1). *)
ExportFlush(p) ==
    /\ runPc = "running"
    /\ unit[p].pc = "flush"
    /\ \/ /\ FailUnit(p, "Could not save table")
          /\ UNCHANGED <<files, tableBar>>
       \/ /\ files' = FilePut(files, TablePath(p, CurrentTable(p)),
                              [state |-> "complete",
                               data |-> ExportedDocument(CurrentTable(p), args, filters)])
          /\ tableBar' = [tableBar EXCEPT ![p] = @ + 1]
          /\ unit' = AfterTable(p)
    /\ UNCHANGED <<args, runPc, runResult, filters, found, schemaAcc, dirs, fileBar>>
    /\ UNCHANGED convVars

(* lines 222-229: schema.write, file_bar.inc(1), Ok(()). *)
ExportSchema(p) ==
    /\ runPc = "running"
    /\ unit[p].pc = "schema"
    /\ \/ /\ schemaAcc[p].some
          /\ FailUnit(p, "schema write")
          /\ UNCHANGED <<files, fileBar>>
       \/ /\ files' = IF schemaAcc[p].some
                      THEN FilePut(files, <<"out", p, "bschema">>,
                                   [state |-> "complete", data |-> schemaAcc[p].val])
                      ELSE files
          /\ fileBar' = fileBar + 1
          /\ SetUnit(p, "done")
    /\ UNCHANGED <<args, runPc, runResult, filters, found, schemaAcc, dirs, tableBar>>
    /\ UNCHANGED convVars

(* A return that drops what find_any found. *)
ExportReturnDropsResult ==
    /\ BatchEnded
    /\ runResult' = Ok("unit")
    /\ runPc' = "returned"
    /\ UNCHANGED <<args, filters, found, unit, schemaAcc, dirs, files, fileBar, tableBar>>
    /\ UNCHANGED convVars

(* lines 231-239: find_any's item, if any, is returned as the error. *)
ExportReturn ==
    /\ BatchEnded
    /\ IF Failed # {}
       THEN \E p \in Failed : runResult' = Err(unit[p].err.val)
       ELSE runResult' = Ok("unit")
    /\ runPc' = "returned"
    /\ UNCHANGED <<args, filters, found, unit, schemaAcc, dirs, files, fileBar, tableBar>>
    /\ UNCHANGED convVars

NextExport ==
    \/ ExportConfigure
    \/ \E p \in Units : ExportStart(p)
    \/ \E p \in Units : ExportOpen(p)
    \/ \E p \in Units : ExportMkdir(p)
    \/ \E p \in Units : ExportTable(p)
    \/ \E p \in Units : ExportCreate(p)
    \/ \E p \in Units : ExportWrite(p)
    \/ \E p \in Units : ExportFlush(p)
    \/ \E p \in Units : ExportSchema(p)
    \/ \E p \in Units : Observe(p)
    \/ ExportReturn

SpecExport == InitExport /\ [][NextExport]_vars

(* An export of every table and column, typed, with schema emission. *)
DefaultExportArgs ==
    [out_file |-> Some("out"), file_type |-> Some("json"), untyped |-> FALSE,
     no_schema |-> FALSE, tables |-> {}, columns |-> {}]

(* The scheduling of the units, which the options have no part in: the     *)
(* default export, with the worker threads of the pool and the calling     *)
(* thread kept running, so that a step that can be taken is taken in the   *)
(* end.                                                                    *)
InitExportDefault == InitExport /\ args = DefaultExportArgs

SpecExportFair == InitExportDefault /\ [][NextExport]_vars /\ WF_vars(NextExport)

-----------------------------------------------------------------------------
(* Import: run_deserialization.                                            *)

ImportArgs ==
    [out_file : {NoneV, Some("out")},
     file_type : {NoneV, Some("json"), Some("csv")},
     untyped : {FALSE},
     no_schema : {FALSE},
     tables : {{}},
     columns : {{}}]

(* Schema file p lies in the root of the input under a file name of its    *)
(* own, p.bschema. The file_name it declares is read from its content: it  *)
(* is the file's own stem, as an export leaves it, but for the last schema *)
(* file, which declares the name of the schema file before it.             *)
SchemaDir(p) == <<>>

DeclaredName(p) == IF p = NumFiles /\ p > 1 THEN p - 1 ELSE p

(* The tables schema file p records, as an earlier export fed them. *)
RECURSIVE FeedAll(_, _)
FeedAll(schema, ts) ==
    IF Len(ts) = 0 THEN schema ELSE FeedAll(FeedTable(schema, ConvertAll(Head(ts))), Tail(ts))

SchemaFile(p) ==
    [FeedAll(EmptySidecar, SourceTables(p)) EXCEPT !.file_name = DeclaredName(p)]

(* FileSchema::find_table_files (schema.rs): one path per named table of   *)
(* the schema, in the schema's order.                                      *)
FindTableFiles(p) ==
    SelectSeq([i \in 1..Len(SourceTables(p)) |-> ConvertAll(SourceTables(p)[i])],
              LAMBDA t : t.name.some)

(* What a located table file may hold: a typed or an untyped export of the *)
(* table, or text that is not a JSON table.                                *)
TableFileContents(t) ==
    {WriteTable(t, FALSE).val, WriteTable(t, TRUE).val, InvalidDocument}

(* BdatVersion::are_labels_hashed: table names of a modern file are hashes. *)
AreLabelsHashed(version) == version = "Modern"

InitImport ==
    /\ ConvIdle
    /\ args \in ImportArgs
    /\ runPc = "init"
    /\ runResult = NoneV
    /\ filters = NoneV
    /\ found = FALSE
    /\ unit = NewUnits
    /\ schemaAcc = [p \in Units |-> NoneV]
    /\ dirs = {}
    /\ files = <<>>
    /\ fileBar = 0
    /\ tableBar = [p \in Units |-> 0]

(* run_deserialization, lines 243-290. *)
ImportConfigure ==
    /\ runPc = "init"
    /\ IF ~args.out_file.some
       THEN /\ runResult' = Err([unit |-> 0, cause |-> "out dir is required"])
            /\ runPc' = "returned"
            /\ UNCHANGED dirs
       ELSE \/ /\ runResult' = Err([unit |-> 0, cause |-> "Could not create output directory"])
               /\ runPc' = "returned"
               /\ UNCHANGED dirs
            \/ /\ dirs' = dirs \cup {<<"out">>}
               /\ IF ~args.file_type.some
                  THEN /\ runResult' = Err([unit |-> 0, cause |-> "file type is required"])
                       /\ runPc' = "returned"
                  ELSE IF args.file_type.val # "json"
                  THEN /\ runResult' = Err([unit |-> 0, cause |-> "unknown file type"])
                       /\ runPc' = "returned"
                  ELSE /\ runPc' = "running"
                       /\ UNCHANGED runResult
    /\ UNCHANGED <<args, filters, found, unit, schemaAcc, files, fileBar, tableBar>>
    /\ UNCHANGED convVars

ImportStart(p) ==
    /\ CanStart(p)
    /\ SetUnit(p, "load")
    /\ UNCHANGED <<args, runPc, runResult, filters, found, schemaAcc, dirs, files, fileBar, tableBar>>
    /\ UNCHANGED convVars

(* lines 294-313: FileSchema::read(File::open), find_table_files. *)
ImportLoadSchema(p) ==
    /\ runPc = "running"
    /\ unit[p].pc = "load"
    /\ \/ /\ FailUnit(p, "schema read")
          /\ UNCHANGED schemaAcc
       \/ /\ schemaAcc' = [schemaAcc EXCEPT ![p] = Some(SchemaFile(p))]
          /\ unit' = [unit EXCEPT ![p].pc = "tables",
                                  ![p].tables = [i \in 1..Len(FindTableFiles(p)) |-> NoneV]]
    /\ UNCHANGED <<args, runPc, runResult, filters, found, dirs, files, fileBar, tableBar>>
    /\ UNCHANGED convVars

(* lines 315-328, for table file i of the unit: File::open, table_bar.inc, *)
(* read_table. The table files of one unit are read in parallel, in any    *)
(* order; a panic in read_table unwinds the unit.                          *)
ImportDecode(p, i) ==
    /\ runPc = "running"
    /\ unit[p].pc = "tables"
    /\ i \in 1..Len(unit[p].tables)
    /\ ~unit[p].tables[i].some
    /\ \/ /\ unit' = [unit EXCEPT ![p].tables[i] = Some(Err(UnitErr(p, "table open")))]
          /\ UNCHANGED tableBar
       \/ /\ tableBar' = [tableBar EXCEPT ![p] = @ + 1]
          /\ \E d \in TableFileContents(FindTableFiles(p)[i]) :
                LET t == FindTableFiles(p)[i]
                    r == ReadTable(Some(LabelParse(LabelToString(t.name.val),
                                                   AreLabelsHashed(schemaAcc[p].val.version))),
                                   schemaAcc[p].val, d)
                IN  unit' = IF r.kind = "panic"
                            THEN [unit EXCEPT ![p].pc = "panicked"]
                            ELSE IF r.kind = "err"
                            THEN [unit EXCEPT ![p].tables[i] = Some(Err(UnitErr(p, r.error)))]
                            ELSE [unit EXCEPT ![p].tables[i] = Some(r)]
    /\ UNCHANGED <<args, runPc, runResult, filters, found, schemaAcc, dirs, files, fileBar>>
    /\ UNCHANGED convVars

TableErrors(p) ==
    {i \in 1..Len(unit[p].tables) : unit[p].tables[i].some /\ unit[p].tables[i].val.kind = "err"}

(* line 329: collect::<Result<Vec<_>>>()? joins the unit's tables. *)
ImportJoin(p) ==
    /\ runPc = "running"
    /\ unit[p].pc = "tables"
    /\ IF TableErrors(p) # {}
       THEN \E i \in TableErrors(p) :
               unit' = [unit EXCEPT ![p].pc = "erred",
                                    ![p].err = Some(unit[p].tables[i].val.error)]
       ELSE /\ \A i \in 1..Len(unit[p].tables) : unit[p].tables[i].some
            /\ SetUnit(p, "encode")
    /\ UNCHANGED <<args, runPc, runResult, filters, found, schemaAcc, dirs, files, fileBar, tableBar>>
    /\ UNCHANGED convVars

(* An encode step that hands the tables over last first. *)
ImportEncodeReversed(p) ==
    /\ runPc = "running"
    /\ unit[p].pc = "encode"
    /\ \/ /\ FailUnit(p, "create_dir_all")
          /\ UNCHANGED <<dirs, files, fileBar>>
       \/ /\ dirs' = dirs \cup {<<"out", p>>}
          /\ \/ /\ FailUnit(p, "create bdat")
                /\ UNCHANGED <<files, fileBar>>
             \/ /\ FailUnit(p, "write_all_tables")
                /\ files' = FilePut(files, <<"out", p, "bdat">>, [state |-> "partial"])
                /\ UNCHANGED fileBar
             \/ /\ files' = FilePut(files, <<"out", p, "bdat">>,
                                    [state |-> "complete",
                                     data |-> [i \in 1..Len(unit[p].tables) |->
                                                  unit[p].tables[Len(unit[p].tables) + 1 - i].val.val]])
                /\ fileBar' = fileBar + 1
                /\ SetUnit(p, "done")
    /\ UNCHANGED <<args, runPc, runResult, filters, found, schemaAcc, tableBar>>
    /\ UNCHANGED convVars

(* lines 331-340: create_dir_all, File::create, write_all_tables,          *)
(* file_bar.inc(1).                                                        *)
ImportEncode(p) ==
    /\ runPc = "running"
    /\ unit[p].pc = "encode"
    /\ \/ /\ FailUnit(p, "create_dir_all")
          /\ UNCHANGED <<dirs, files, fileBar>>
       \/ /\ dirs' = dirs \cup {<<"out", p>>}
          /\ \/ /\ FailUnit(p, "create bdat")
                /\ UNCHANGED <<files, fileBar>>
             \/ /\ FailUnit(p, "write_all_tables")
                /\ files' = FilePut(files, <<"out", p, "bdat">>, [state |-> "partial"])
                /\ UNCHANGED fileBar
             \/ /\ files' = FilePut(files, <<"out", p, "bdat">>,
                                    [state |-> "complete",
                                     data |-> [i \in 1..Len(unit[p].tables) |->
                                                  unit[p].tables[i].val.val]])
                /\ fileBar' = fileBar + 1
                /\ SetUnit(p, "done")
    /\ UNCHANGED <<args, runPc, runResult, filters, found, schemaAcc, tableBar>>
    /\ UNCHANGED convVars

(* lines 342-345: what find_any found is dropped; a panic of a unit        *)
(* resumes in the caller once the iterator has ended.                      *)
ImportReturn ==
    /\ BatchEnded
    /\ runResult' = IF \E p \in Units : unit[p].pc = "panicked" THEN Panic ELSE Ok("unit")
    /\ runPc' = "returned"
    /\ UNCHANGED <<args, filters, found, unit, schemaAcc, dirs, files, fileBar, tableBar>>
    /\ UNCHANGED convVars

NextImport ==
    \/ ImportConfigure
    \/ \E p \in Units : ImportStart(p)
    \/ \E p \in Units : ImportLoadSchema(p)
    \/ \E p \in Units : \E i \in 1..Len(Catalogue) : ImportDecode(p, i)
    \/ \E p \in Units : ImportJoin(p)
    \/ \E p \in Units : ImportEncode(p)
    \/ \E p \in Units : Observe(p)
    \/ ImportReturn

SpecImport == InitImport /\ [][NextImport]_vars

-----------------------------------------------------------------------------
(* Properties of the batch orchestrator.                                   *)

(* The run went past its configuration and has returned. *)
BatchReturned == runPc = "returned" /\ \E p \in Units : unit[p].pc # "queued"

(* The result is an error that one of the failed units returned. *)
ResultFromFailedUnit ==
    /\ runResult.kind = "err"
    /\ \E p \in Failed : runResult.error = unit[p].err.val

(* C1: an import run in which a unit failed returns an error of a failed   *)
(* unit, and returns success only when every unit succeeded.               *)
C1_ImportFailureIsReported ==
    BatchReturned =>
        /\ Failed # {} => ResultFromFailedUnit
        /\ runResult.kind = "ok" => \A p \in Units : unit[p].pc = "done"

(* C2: an export run in which a unit failed returns an error of a failed   *)
(* unit, and returns success only when every unit succeeded.               *)
C2_ExportFailureIsReported ==
    BatchReturned =>
        /\ Failed # {} => ResultFromFailedUnit
        /\ runResult.kind = "ok" => \A p \in Units : unit[p].pc = "done"

C2_Witness ==
    /\ BatchReturned
    /\ Cardinality(Failed) = 2
    /\ \E p \in Units : unit[p].pc = "queued"
    /\ ResultFromFailedUnit

(* The table documents written out in full. *)
TableDocuments ==
    {path \in DOMAIN files : path[3] # "bschema" /\ files[path].state = "complete"}

(* The source table a table document was exported from. *)
ExportedTable(path) ==
    CHOOSE t \in {ConvertAll(SourceTables(path[2])[i]) : i \in 1..Len(SourceTables(path[2]))} :
        t.name.some /\ LabelToString(t.name.val) = path[3]

SelectedColumns(t) ==
    {LabelToString(t.columns[i].label) : i \in {k \in 1..Len(t.columns) :
        FilterContains(filters.column_filter, t.columns[k].label)}}

(* C10: an exported table document shows exactly the columns the column    *)
(* filter selects, in its inline schema and in the fields of its rows: all *)
(* of them when the inclusion list is empty, whatever the table filter.    *)
C10_OnlySelectedColumns ==
    runPc \in {"running", "returned"} =>
        \A path \in TableDocuments :
            LET d == files[path].data
                selected == SelectedColumns(ExportedTable(path))
            IN  /\ d.schema.some =>
                      {d.schema.val[i].name : i \in 1..Len(d.schema.val)} = selected
                /\ \A i \in 1..Len(d.rows) : DOMAIN d.rows[i].cells = selected


(* The tables of source file p after the hash rewrite, in file order. *)
RewrittenTables(p) == [i \in 1..Len(SourceTables(p)) |-> ConvertAll(SourceTables(p)[i])]

(* The tables of source file p that have a name the table filter selects. *)
SelectedTables(p) ==
    {t \in {RewrittenTables(p)[i] : i \in 1..Len(SourceTables(p))} :
        t.name.some /\ FilterContains(filters.table_filter, t.name.val)}

(* The table files unit p has created. *)
TableFilesOf(p) == {path \in DOMAIN files : path[2] = p /\ path[3] \notin {"bschema", "bdat"}}

(* The unit stopped on an error while its cursor was at a table. *)
StoppedAtTable(p) ==
    /\ unit[p].pc \in {"erred", "failed"}
    /\ unit[p].cursor \in 1..Len(SourceTables(p))

(* C11: a source file exported without error leaves exactly one complete   *)
(* table file per named table the table filter selects; a unit never stops *)
(* on an error at an unnamed or filtered-out table.                        *)
C11_TableSelection ==
    runPc \in {"running", "returned"} =>
        \A p \in Units :
            /\ unit[p].pc = "done" =>
                  /\ TableFilesOf(p) = {TablePath(p, t) : t \in SelectedTables(p)}
                  /\ \A path \in TableFilesOf(p) : files[path].state = "complete"
            /\ StoppedAtTable(p) => CurrentTable(p) \in SelectedTables(p)

(* File 2 holds an unnamed table followed by Item: exported with no filter *)
(* it is done, with Item written.                                          *)
C11_Witness ==
    /\ args.tables = {}
    /\ unit[2].pc = "done"
    /\ ~SourceTables(2)[1].name.some
    /\ TableFilesOf(2) = {<<"out", 2, "Item">>}
    /\ \E q \in Units : unit[q].pc = "done" /\ q # 2 /\ Cardinality(TableFilesOf(q)) = 2

(* How many tables of its file the loop of unit p has taken up. *)
TablesReached(p) ==
    IF unit[p].pc = "loop" THEN unit[p].cursor - 1
    ELSE IF unit[p].cursor > Len(SourceTables(p)) THEN Len(SourceTables(p))
    ELSE unit[p].cursor

(* What feed_table has recorded once the first n tables of file p, each    *)
(* after its hash rewrite, were fed in file order.                         *)
FedPrefix(p, n) == FeedAll(EmptySidecar, SubSeq(SourceTables(p), 1, n)).tables

(* C12: with schema emission enabled, the tables fed to a unit's           *)
(* FileSchema are at every moment the tables its loop has taken up so far, *)
(* each in its rewritten form and once, in file order: a table is fed      *)
(* before the filter decides on it, named or not, selected or not.         *)
C12_FedBeforeFilter ==
    (runPc \in {"running", "returned"} /\ ~args.no_schema) =>
        \A p \in Units :
            schemaAcc[p].some => schemaAcc[p].val.tables = FedPrefix(p, TablesReached(p))

(* File 2 (an unnamed table, then Item) exported with the filter {Enemy}:  *)
(* neither table is written and both were fed, Item with its column hash   *)
(* rewritten to the name hp.                                               *)
C12_Witness ==
    /\ args.tables = {"Enemy"}
    /\ unit[2].pc = "done"
    /\ TableFilesOf(2) = {}
    /\ schemaAcc[2].some
    /\ Len(schemaAcc[2].val.tables) = 2
    /\ ~schemaAcc[2].val.tables[1].name.some
    /\ schemaAcc[2].val.tables[2].columns[1].name = "hp"

(* The arguments of an import run name no output location, no text format *)
(* or a text format run_deserialization has no reader for.                 *)
ImportConfigInvalid ==
    \/ ~args.out_file.some
    \/ ~args.file_type.some
    \/ args.file_type.val # "json"

(* C13: an import run whose configuration is invalid returns an error      *)
(* value and has by then created no directory and written no file.         *)
C13_ConfigErrorTouchesNothing ==
    (runPc = "returned" /\ ImportConfigInvalid) =>
        /\ runResult.kind = "err"
        /\ dirs = {}
        /\ files = <<>>

(* No unit leaves the queue in this step. *)
NoUnitStarts == \A p \in Units : unit[p].pc = "queued" => unit'[p].pc = "queued"

BdatPath(p) == <<"out", p, "bdat">>

(* The table read_table returns for located table file i of unit p. *)
DecodedTable(p, i) ==
    ReadTable(Some(LabelParse(LabelToString(FindTableFiles(p)[i].name.val), TRUE)),
              SchemaFile(p), WriteTable(FindTableFiles(p)[i], FALSE).val).val

(* C15: the binary file of an import unit exists only when every located   *)
(* table file of the unit has been decoded without error, and once encoded *)
(* it holds the decoded tables in the order the table files were located.  *)
C15_EncodeAfterJoin ==
    runPc \in {"running", "returned"} =>
        \A p \in Units :
            BdatPath(p) \in DOMAIN files =>
                /\ Len(unit[p].tables) = Len(FindTableFiles(p))
                /\ \A i \in 1..Len(unit[p].tables) :
                      unit[p].tables[i].some /\ unit[p].tables[i].val.kind = "ok"
                /\ files[BdatPath(p)].state = "complete" =>
                      files[BdatPath(p)].data =
                          [i \in 1..Len(FindTableFiles(p)) |-> DecodedTable(p, i)]

(* Schema 3 locates two table files and its binary file holds both tables, *)
(* while another unit whose table file did not decode has written none.    *)
C15_Witness ==
    /\ BdatPath(3) \in DOMAIN files
    /\ files[BdatPath(3)].state = "complete"
    /\ Len(files[BdatPath(3)].data) = 2
    /\ files[BdatPath(3)].data[1] # files[BdatPath(3)].data[2]
    /\ \E q \in Units :
          /\ unit[q].pc \in {"erred", "failed"}
          /\ TableErrors(q) # {}
          /\ BdatPath(q) \notin DOMAIN files

(* Unit p is between File::create and the end of flush for the table its   *)
(* cursor is at, or stopped on an error there.                             *)
WritingAt(p, path) ==
    /\ unit[p].pc \in {"write", "flush", "erred", "failed"}
    /\ unit[p].cursor \in 1..Len(SourceTables(p))
    /\ CurrentTable(p).name.some
    /\ path = TablePath(p, CurrentTable(p))

(* C16: a table file of an export unit that is not written out in full is  *)
(* the file of the table the unit's loop is at: the files of the tables    *)
(* before it are complete, also when the unit has stopped on an error.     *)
C16_NoPartialFilesBehind ==
    runPc \in {"running", "returned"} =>
        \A p \in Units : \A path \in TableFilesOf(p) :
            files[path].state # "complete" => WritingAt(p, path)

(* Unit 3 stopped on an error while writing its second table: the file of  *)
(* the first is complete, the file of the second is not.                   *)
C16_Witness ==
    /\ unit[3].pc = "failed"
    /\ unit[3].cursor = 2
    /\ TableFilesOf(3) = {<<"out", 3, "Item">>, <<"out", 3, "Enemy">>}
    /\ files[<<"out", 3, "Item">>].state = "complete"
    /\ files[<<"out", 3, "Enemy">>].state = "partial"

(* The sidecar export unit p writes. *)
SidecarPath(p) == <<"out", p, "bschema">>

(* The sidecar of a unit is there exactly when the unit is done and schema *)
(* emission is on, and it then describes the tables of that file alone.    *)
SidecarOnlyWhenDone ==
    runPc \in {"running", "returned"} =>
        \A p \in Units :
            /\ SidecarPath(p) \in DOMAIN files <=> (unit[p].pc = "done" /\ ~args.no_schema)
            /\ SidecarPath(p) \in DOMAIN files =>
                  /\ files[SidecarPath(p)].state = "complete"
                  /\ files[SidecarPath(p)].data.tables = FedPrefix(p, Len(SourceTables(p)))

(* The sidecar appears in the step that ends the unit, after its last      *)
(* table, and the unit takes no step once it is there.                     *)
SidecarWrittenOnce ==
    \A p \in Units :
        /\ (SidecarPath(p) \in DOMAIN files' /\ SidecarPath(p) \notin DOMAIN files) =>
              (unit[p].pc = "schema" /\ unit[p].cursor > Len(SourceTables(p)))
        /\ SidecarPath(p) \in DOMAIN files =>
              (unit'[p] = unit[p] /\ files'[SidecarPath(p)] = files[SidecarPath(p)])

(* C17: each export unit has a FileSchema of its own; with schema emission *)
(* on, a unit that succeeds persists it once, after its last table was     *)
(* fed; with schema emission off no sidecar is written; a unit that fails  *)
(* writes none, and the table files it wrote remain.                       *)
C17_SidecarLifecycle ==
    /\ []SidecarOnlyWhenDone
    /\ [][SidecarWrittenOnce]_vars

(* With schema emission on, unit 3 failed at its second table and left the *)
(* file of its first table and no sidecar, while another unit is done and  *)
(* has persisted its own.                                                  *)
C17_Witness ==
    /\ ~args.no_schema
    /\ unit[3].pc = "failed"
    /\ unit[3].cursor = 2
    /\ <<"out", 3, "Item">> \in DOMAIN files
    /\ files[<<"out", 3, "Item">>].state = "complete"
    /\ SidecarPath(3) \notin DOMAIN files
    /\ \E q \in Units : unit[q].pc = "done" /\ SidecarPath(q) \in DOMAIN files

(* The path in the file system of a file the batch wrote, from the unit    *)
(* that wrote it and what it is. Export (lines 172-178, 211, 223): a table *)
(* file lies in out_dir/<stem>/, the sidecar in out_dir, out_dir mirroring *)
(* the directory of the source file. Import (lines 333-335): the binary    *)
(* file lies in the mirrored directory of the schema file, named by the    *)
(* file_name the schema declares.                                          *)
FsPath(path) ==
    LET p == path[2]
    IN  IF path[3] = "bdat"
        THEN <<[dir |-> "out"]>> \o SchemaDir(p) \o <<[stem |-> DeclaredName(p), ext |-> "bdat"]>>
        ELSE IF path[3] = "bschema"
        THEN <<[dir |-> "out"]>> \o SourceDir(p) \o <<[stem |-> SourceStem(p), ext |-> "bschema"]>>
        ELSE <<[dir |-> "out"]>> \o SourceDir(p) \o <<[dir |-> SourceStem(p)]>>
                 \o <<[table |-> path[3], ext |-> "json"]>>

WrittenTableFiles(p) == {path \in TableFilesOf(p) : files[path].state = "complete"}

(* C19: the file bar counts the units that are done, so it stays within    *)
(* the number of units and equals it when the run returns success; the     *)
(* table bar of an export unit counts the table files the unit has         *)
(* written, and stands at the length the bar was given, the file's table   *)
(* count, when the unit is done.                                           *)
C19_ProgressAccounting ==
    runPc \in {"running", "returned"} =>
        /\ fileBar = Cardinality({p \in Units : unit[p].pc = "done"})
        /\ fileBar <= NumFiles
        /\ (BatchReturned /\ runResult.kind = "ok") => fileBar = NumFiles
        /\ \A p \in Units :
              /\ tableBar[p] = Cardinality(WrittenTableFiles(p))
              /\ unit[p].pc = "done" => tableBar[p] = TableCount(p)

=============================================================================
